---- MODULE Spec2Model ----
(***************************************************************************)
(* A model of vcf2avro (src/vcf2avro.py): the schema induction of          *)
(* VCFReader.generate_schema / add_column, the row transcoding of          *)
(* VCFReader.rows and the top level sequencing of ProgramRunner.run.       *)
(*                                                                         *)
(* Byte strings are sequences of one-character strings, so that the        *)
(* splitting, joining and numeric parsing the program does on them is      *)
(* computed rather than assumed.                                           *)
(***************************************************************************)
EXTENDS Integers, Sequences, FiniteSets, TLC

VARIABLES
    header,         \* VCFReader.__header: the "##" lines, as byte strings
    version,        \* VCFReader._version
    genotypes,      \* VCFReader.__genotypes: the sample names, in order
    truncate,       \* VCFReader.__truncate
    schema,         \* VCFReader.__schema: the fields of the schema document
    columns,        \* VCFReader.__columns: qualified name -> converter
    definitions,    \* the arguments of the add_column_definition calls so far
    table_columns,  \* the argument of VCFReader.rows
    fixed_columns,  \* rows(): the (index, name) pairs of the fixed columns
    info_columns,   \* rows(): annotation key -> qualified name
    genotype_columns, \* rows(): per sample, field name -> qualified name
    all_lines,      \* the data section of the input, as it was at the start
    input,          \* the data lines not yet consumed from the input file
    records,        \* the records yielded by rows(), in order
    args,           \* the command line flags of ProgramRunner
    dest,           \* the destination path on the file system
    dest0,          \* the destination as it was when the program started
    writer,         \* ProgramRunner.__writer: "none", "open" or "closed"
    pc,             \* the position of the caller / of ProgramRunner.run
    err             \* the exception that ended the run, if any

vars == <<header, version, genotypes, truncate, schema, columns, definitions,
          table_columns, fixed_columns, info_columns, genotype_columns,
          all_lines, input, records, args, dest, dest0, writer, pc, err>>

(***************************************************************************)
(* Bounds of the model.                                                    *)
(***************************************************************************)
MaxRows == 2        \* data lines in an input of the reader
MaxDeclRows == 1    \* data lines in an input with the one declaration X
MaxRunRows == 2     \* data lines in an input of a whole program run
MaxVersionLen == 4  \* bytes in a string handed to parse_version

(***************************************************************************)
(* Module level constants of the program.                                  *)
(***************************************************************************)
CHROM_NAME == <<"C","H","R","O","M">>
POS_NAME == <<"P","O","S">>
ID_NAME == <<"I","D">>
REF_NAME == <<"R","E","F">>
ALT_NAME == <<"A","L","T">>
QUAL_NAME == <<"Q","U","A","L">>
FILTER_NAME == <<"F","I","L","T","E","R">>
INFO_NAME == <<"I","N","F","O">>
VCF_FIXED_COLUMNS ==
    <<CHROM_NAME, POS_NAME, ID_NAME, REF_NAME, ALT_NAME, QUAL_NAME, FILTER_NAME>>
COLUMN_SEPARATOR == "_"
MISSING_VALUE == <<".">>
ID == <<"I","D">>
INFO == <<"I","N","F","O">>
DESCRIPTION == <<"D","e","s","c","r","i","p","t","i","o","n">>
NUMBER == <<"N","u","m","b","e","r">>
TYPE == <<"T","y","p","e">>
INTEGER == <<"I","n","t","e","g","e","r">>
FLOAT == <<"F","l","o","a","t">>
FLAG == <<"F","l","a","g">>
CHARACTER == <<"C","h","a","r","a","c","t","e","r">>
STRING_TYPE == <<"S","t","r","i","n","g">>
VARIABLE_SIZE == 0

(***************************************************************************)
(* The byte string methods the program uses.                               *)
(***************************************************************************)
\* s.find(c): the 0-based index of the first c in s, or -1
Find(s, c) ==
    IF \E i \in 1..Len(s) : s[i] = c
    THEN (CHOOSE i \in 1..Len(s) : s[i] = c /\ \A j \in 1..(i - 1) : s[j] # c) - 1
    ELSE -1

\* s[a:b] with Python's slice semantics (0-based, negative counts from the end)
Slice(s, a, b) ==
    LET n == Len(s)
        lo0 == IF a < 0 THEN a + n ELSE a
        hi0 == IF b < 0 THEN b + n ELSE b
        lo == IF lo0 < 0 THEN 0 ELSE IF lo0 > n THEN n ELSE lo0
        hi == IF hi0 < 0 THEN 0 ELSE IF hi0 > n THEN n ELSE hi0
    IN SubSeq(s, lo + 1, hi)

\* s.split(sep) for a one-byte separator
RECURSIVE Split(_, _)
Split(s, sep) ==
    LET k == Find(s, sep)
    IN IF k = -1 THEN <<s>>
       ELSE <<SubSeq(s, 1, k)>> \o Split(SubSeq(s, k + 2, Len(s)), sep)

\* s.split(sep, 1)
Split1(s, sep) ==
    LET k == Find(s, sep)
    IN IF k = -1 THEN <<s>>
       ELSE <<SubSeq(s, 1, k), SubSeq(s, k + 2, Len(s))>>

\* sep.join(parts)
RECURSIVE Join(_, _)
Join(parts, sep) ==
    IF Len(parts) = 0 THEN <<>>
    ELSE IF Len(parts) = 1 THEN parts[1]
    ELSE parts[1] \o <<sep>> \o Join(Tail(parts), sep)

IsSpace(c) == c \in {" ", "\t", "\n"}

\* s.split(): split on runs of white space, no empty tokens
RECURSIVE SplitWS(_)
SplitWS(s) ==
    IF \A i \in 1..Len(s) : IsSpace(s[i]) THEN <<>>
    ELSE LET b == CHOOSE i \in 1..Len(s) :
                     ~IsSpace(s[i]) /\ \A j \in 1..(i - 1) : IsSpace(s[j])
             rest == SubSeq(s, b, Len(s))
             e == IF \E i \in 1..Len(rest) : IsSpace(rest[i])
                  THEN CHOOSE i \in 1..Len(rest) :
                           IsSpace(rest[i]) /\ \A j \in 1..(i - 1) : ~IsSpace(rest[j])
                  ELSE Len(rest) + 1
         IN <<SubSeq(rest, 1, e - 1)>> \o SplitWS(SubSeq(rest, e, Len(rest)))

\* s.strip(): white space removed at both ends
RECURSIVE StripWS(_)
StripWS(s) ==
    IF Len(s) = 0 THEN s
    ELSE IF IsSpace(s[1]) THEN StripWS(Tail(s))
    ELSE IF IsSpace(s[Len(s)]) THEN StripWS(SubSeq(s, 1, Len(s) - 1))
    ELSE s

\* s.startswith(p)
StartsWith(s, p) == Len(s) >= Len(p) /\ SubSeq(s, 1, Len(p)) = p

(***************************************************************************)
(* int() and float() on byte strings.  A result is [ok, v]; ok = FALSE is  *)
(* the ValueError.  A float is [m, e], the number m / 10^e with no         *)
(* trailing decimal zero, which is exact for the decimal literals of the   *)
(* inputs (no exponent, inf or nan literal occurs in them).                *)
(***************************************************************************)
Digits == {"0","1","2","3","4","5","6","7","8","9"}
DigitVal(c) ==
    CASE c = "0" -> 0 [] c = "1" -> 1 [] c = "2" -> 2 [] c = "3" -> 3
      [] c = "4" -> 4 [] c = "5" -> 5 [] c = "6" -> 6 [] c = "7" -> 7
      [] c = "8" -> 8 [] c = "9" -> 9

RECURSIVE DigitsVal(_)
DigitsVal(s) ==
    IF Len(s) = 0 THEN 0
    ELSE 10 * DigitsVal(SubSeq(s, 1, Len(s) - 1)) + DigitVal(s[Len(s)])

AllDigits(s) == \A i \in 1..Len(s) : s[i] \in Digits

RECURSIVE Pow10(_)
Pow10(n) == IF n = 0 THEN 1 ELSE 10 * Pow10(n - 1)

ParseInt(s) ==
    LET t == StripWS(s)
        signed == Len(t) > 0 /\ t[1] \in {"+", "-"}
        body == IF signed THEN Tail(t) ELSE t
    IN IF Len(body) > 0 /\ AllDigits(body)
       THEN [ok |-> TRUE,
             v |-> IF signed /\ t[1] = "-" THEN 0 - DigitsVal(body) ELSE DigitsVal(body)]
       ELSE [ok |-> FALSE, v |-> 0]

RECURSIVE NormFloat(_, _)
NormFloat(m, e) ==
    IF e > 0 /\ m % 10 = 0 THEN NormFloat(m \div 10, e - 1) ELSE [m |-> m, e |-> e]

ParseFloat(s) ==
    LET t == StripWS(s)
        signed == Len(t) > 0 /\ t[1] \in {"+", "-"}
        body == IF signed THEN Tail(t) ELSE t
        parts == Split(body, ".")
        ip == parts[1]
        fp == IF Len(parts) = 2 THEN parts[2] ELSE <<>>
        mag == DigitsVal(ip) * Pow10(Len(fp)) + DigitsVal(fp)
    IN IF Len(parts) <= 2 /\ AllDigits(ip) /\ AllDigits(fp) /\ Len(ip) + Len(fp) > 0
       THEN [ok |-> TRUE,
             v |-> NormFloat(IF signed /\ t[1] = "-" THEN 0 - mag ELSE mag, Len(fp))]
       ELSE [ok |-> FALSE, v |-> [m |-> 0, e |-> 0]]

FloatLess(a, b) == a.m * Pow10(b.e) < b.m * Pow10(a.e)

(***************************************************************************)
(* Schema induction: add_column, add_column_definition, _get_converter,    *)
(* generate_schema.  An exception is a record [kind, arg].                 *)
(***************************************************************************)
\* arg is the byte string the exception carries or is about, at the
\* position of the sample field that raised it (0 when there is none)
NoError == [kind |-> "none", arg |-> <<>>, at |-> 0]
Raise(kind, arg) == [kind |-> kind, arg |-> arg, at |-> 0]
RaiseAt(kind, j) == [kind |-> kind, arg |-> <<>>, at |-> j]

\* a Python dict as a function; d[k] = v
Put(d, k, v) == [x \in (DOMAIN d) \cup {k} |-> IF x = k THEN v ELSE d[x]]
EmptyDict == [x \in {} |-> <<>>]

\* the converter table d of _get_converter: int, float or None
ScalarParser(avro_type) ==
    CASE avro_type = "boolean" -> "int"
      [] avro_type = "int" -> "int"
      [] avro_type = "float" -> "float"
      [] avro_type = "bytes" -> "none"

\* GetConverter with the scalar parser chosen for every arity up to one
GetConverterScalarUpToOne(avro_type, num_elements) ==
    LET g == ScalarParser(avro_type)
    IN IF num_elements <= 1
       THEN [kind |-> IF g = "none" THEN "none" ELSE "scalar", g |-> g]
       ELSE [kind |-> IF g = "none" THEN "none" ELSE "list", g |-> g]

\* _get_converter: "none" is None, "scalar" is int or float itself, "list"
\* is the closure conv that splits on "," and applies g to every token
GetConverter(avro_type, num_elements) ==
    LET g == ScalarParser(avro_type)
    IN IF num_elements = 1
       THEN [kind |-> IF g = "none" THEN "none" ELSE "scalar", g |-> g]
       ELSE [kind |-> IF g = "none" THEN "none" ELSE "list", g |-> g]

\* FieldType without the exception for bytes
FieldTypeArrayForBytes(avro_type, num_elements) ==
    IF num_elements = 1
    THEN [array |-> FALSE, items |-> avro_type]
    ELSE [array |-> TRUE, items |-> avro_type]

\* the type t that add_column_definition writes into the union [t, "null"]
FieldType(avro_type, num_elements) ==
    IF num_elements = 1 \/ avro_type = "bytes"
    THEN [array |-> FALSE, items |-> avro_type]
    ELSE [array |-> TRUE, items |-> avro_type]

NullType == [array |-> FALSE, items |-> "null"]

\* add_column_definition: the field appended to the schema document and the
\* converter stored under the column name
ColumnDefinition(name, avro_type, num_elements) ==
    [field |-> [name |-> name,
                type |-> <<FieldType(avro_type, num_elements), NullType>>],
     conv |-> GetConverter(avro_type, num_elements),
     call |-> [name |-> name, avro_type |-> avro_type, num_elements |-> num_elements]]

\* add_column, the loop over the first three attributes and the last one:
\* the dictionary d of a declaration line, or the IndexError of a token
\* without "="
RECURSIVE DeclAttrLoop(_, _, _)
DeclAttrLoop(s, j, d) ==
    IF j = 0
    THEN LET tokens == Split1(s, "=")
         IN IF Len(tokens) < 2 THEN [ok |-> FALSE, d |-> d]
            ELSE [ok |-> TRUE, d |-> Put(d, tokens[1], tokens[2])]
    ELSE LET k == Find(s, ",")
             tokens == Split(Slice(s, 0, k), "=")
         IN IF Len(tokens) < 2 THEN [ok |-> FALSE, d |-> d]
            ELSE DeclAttrLoop(Slice(s, k + 1, Len(s)), j - 1,
                              Put(d, tokens[1], tokens[2]))

DeclAttrs(line) ==
    DeclAttrLoop(Slice(line, Find(line, "<") + 1, Find(line, ">")), 3, EmptyDict)

\* DeclaredNumElements without the coercion of negative counts
DeclaredNumElementsKeepNegative(number) ==
    LET p == ParseInt(number)
    IN IF p.ok THEN p.v ELSE VARIABLE_SIZE

\* add_column: num_elements as parsed from the declared Number
DeclaredNumElements(number) ==
    LET p == ParseInt(number)
        n == IF p.ok THEN p.v ELSE VARIABLE_SIZE
    IN IF n < 0 THEN VARIABLE_SIZE ELSE n

\* add_column: the if/elif chain over the declared Type
ElementType(st, num_elements) ==
    IF st = INTEGER THEN
        [ok |-> TRUE, element_type |-> "int", num_elements |-> num_elements]
    ELSE IF st = FLOAT THEN
        [ok |-> TRUE, element_type |-> "float", num_elements |-> num_elements]
    ELSE IF st = FLAG THEN
        [ok |-> TRUE, element_type |-> "int", num_elements |-> 1]
    ELSE IF st = CHARACTER THEN
        [ok |-> TRUE, element_type |-> "bytes", num_elements |-> num_elements]
    ELSE IF st = STRING_TYPE THEN
        [ok |-> TRUE, element_type |-> "bytes", num_elements |-> VARIABLE_SIZE]
    ELSE [ok |-> FALSE, element_type |-> "none", num_elements |-> num_elements]

\* add_column(prefix, line): the column definition, or the exception
AddColumn(prefix, line) ==
    LET a == DeclAttrs(line)
        d == a.d
        none == [field |-> [name |-> <<>>, type |-> <<NullType, NullType>>],
                 conv |-> [kind |-> "none", g |-> "none"],
                 call |-> [name |-> <<>>, avro_type |-> "none", num_elements |-> 0]]
    IN IF ~a.ok THEN [err |-> Raise("IndexError", <<>>), def |-> none]
       ELSE IF ~({ID, DESCRIPTION, NUMBER, TYPE} \subseteq DOMAIN d)
       THEN [err |-> Raise("KeyError", <<>>), def |-> none]
       ELSE LET t == ElementType(d[TYPE], DeclaredNumElements(d[NUMBER]))
            IN IF ~t.ok THEN [err |-> Raise("ValueError", d[TYPE]), def |-> none]
               ELSE [err |-> NoError,
                     def |-> ColumnDefinition(prefix \o <<COLUMN_SEPARATOR>> \o d[ID],
                                              t.element_type, t.num_elements)]

INFO_PREFIX == <<"#","#","I","N","F","O">>
FORMAT_PREFIX == <<"#","#","F","O","R","M","A","T">>

\* generate_schema: the partition of the header lines
InfoDescriptions(hdr) == SelectSeq(hdr, LAMBDA s : StartsWith(s, INFO_PREFIX))
GenotypeDescriptions(hdr) ==
    SelectSeq(hdr, LAMBDA s : ~StartsWith(s, INFO_PREFIX) /\ StartsWith(s, FORMAT_PREFIX))

\* generate_schema: the seven add_*_column calls for the fixed columns
FixedDefinitions ==
    << ColumnDefinition(CHROM_NAME, "bytes", 1),
       ColumnDefinition(POS_NAME, "int", 1),
       ColumnDefinition(ID_NAME, "bytes", 1),
       ColumnDefinition(REF_NAME, "bytes", 1),
       ColumnDefinition(ALT_NAME, "bytes", 1),
       ColumnDefinition(QUAL_NAME, "float", 1),
       ColumnDefinition(FILTER_NAME, "bytes", 1) >>

\* AddColumnCalls with the two genotype loops nested the other way round
AddColumnCallsFieldMajor(hdr, gs) ==
    LET info == SelectSeq(hdr, LAMBDA s : StartsWith(s, INFO_PREFIX))
        descs == SelectSeq(hdr, LAMBDA s : StartsWith(s, FORMAT_PREFIX))
    IN [k \in 1..Len(info) |-> <<INFO_NAME, info[k]>>]
       \o [k \in 1..(Len(gs) * Len(descs)) |->
              <<gs[((k - 1) % Len(gs)) + 1], descs[((k - 1) \div Len(gs)) + 1]>>]

\* generate_schema: the (prefix, line) arguments of the add_column calls, in
\* the order of the two loops
RECURSIVE GenotypeCalls(_, _)
GenotypeCalls(gs, descs) ==
    IF Len(gs) = 0 THEN <<>>
    ELSE [k \in 1..Len(descs) |-> <<gs[1], descs[k]>>] \o GenotypeCalls(Tail(gs), descs)

AddColumnCalls(hdr, gs) ==
    [k \in 1..Len(InfoDescriptions(hdr)) |-> <<INFO_NAME, InfoDescriptions(hdr)[k]>>]
    \o GenotypeCalls(gs, GenotypeDescriptions(hdr))

\* the add_column calls done one after the other on (schema, columns); the
\* first exception ends the loop
RECURSIVE AddColumns(_, _, _, _)
AddColumns(calls, sch, cols, defs) ==
    IF Len(calls) = 0
    THEN [err |-> NoError, schema |-> sch, columns |-> cols, definitions |-> defs]
    ELSE LET r == AddColumn(calls[1][1], calls[1][2])
         IN IF r.err.kind # "none"
            THEN [err |-> r.err, schema |-> sch, columns |-> cols, definitions |-> defs]
            ELSE AddColumns(Tail(calls), Append(sch, r.def.field),
                            Put(cols, r.def.field.name, r.def.conv),
                            Append(defs, r.def.call))

MinVersion == [m |-> 4, e |-> 0]

\* generate_schema(): (schema, columns) or the exception
GenerateSchema(ver, hdr, gs) ==
    IF FloatLess(ver, MinVersion)
    THEN [err |-> Raise("ValueError", <<"v","e","r","s","i","o","n">>),
          schema |-> <<>>, columns |-> EmptyDict, definitions |-> <<>>]
    ELSE AddColumns(AddColumnCalls(hdr, gs),
                    [k \in 1..7 |-> FixedDefinitions[k].field],
                    [n \in {FixedDefinitions[k].field.name : k \in 1..7} |->
                        LET k == CHOOSE k \in 1..7 : FixedDefinitions[k].field.name = n
                        IN FixedDefinitions[k].conv],
                    [k \in 1..7 |-> FixedDefinitions[k].call])

(***************************************************************************)
(* read_header: the version and the sample names.                          *)
(***************************************************************************)
InvalidVersion == [m |-> -1, e |-> 0]

\* parse_version(s): the value stored in _version, or the ValueError of float
ParseVersion(s) ==
    LET tokens == Split(s, "v")
    IN IF Len(tokens) = 2 THEN ParseFloat(tokens[2])
       ELSE [ok |-> TRUE, v |-> InvalidVersion]

\* parse_header_line(s)
ParseHeaderLine(s) == Slice(SplitWS(s), 9, Len(SplitWS(s)))

(***************************************************************************)
(* VCFReader.rows: the set-up before the loop.                             *)
(***************************************************************************)
\* FixedColumns with the position counted from 1 instead of 0
FixedColumnsOffByOne(tc) ==
    SelectSeq([j \in 1..Len(VCF_FIXED_COLUMNS) |-> <<j, VCF_FIXED_COLUMNS[j]>>],
              LAMBDA p : p[2] \in DOMAIN tc)

\* the (j, name) pairs of the fixed columns that are in the table
FixedColumns(tc) ==
    SelectSeq([j \in 1..Len(VCF_FIXED_COLUMNS) |-> <<j - 1, VCF_FIXED_COLUMNS[j]>>],
              LAMBDA p : p[2] \in DOMAIN tc)

HasSeparator(k) == \E i \in 1..Len(k) : k[i] = COLUMN_SEPARATOR

IsInfoKey(k) == HasSeparator(k) /\ Split(k, COLUMN_SEPARATOR)[1] = INFO
IsGenotypeKey(k) == HasSeparator(k) /\ Split(k, COLUMN_SEPARATOR)[1] # INFO

\* name = COLUMN_SEPARATOR.join(split[1:])
InfoLocalName(k) == Join(Tail(Split(k, COLUMN_SEPARATOR)), COLUMN_SEPARATOR)
\* g = COLUMN_SEPARATOR.join(split[:-1]); name = split[-1]
GenotypeOf(k) ==
    LET split == Split(k, COLUMN_SEPARATOR)
    IN Join(SubSeq(split, 1, Len(split) - 1), COLUMN_SEPARATOR)
GenotypeLocalName(k) ==
    LET split == Split(k, COLUMN_SEPARATOR) IN split[Len(split)]

\* GenotypeIndex with a default position instead of the ValueError
GenotypeIndexOrFirst(gs, g) ==
    IF \E i \in 1..Len(gs) : gs[i] = g
    THEN CHOOSE i \in 1..Len(gs) : gs[i] = g /\ \A j \in 1..(i - 1) : gs[j] # g
    ELSE 1

\* self.__genotypes.index(g), 1-based; 0 stands for the ValueError
GenotypeIndex(gs, g) ==
    IF \E i \in 1..Len(gs) : gs[i] = g
    THEN CHOOSE i \in 1..Len(gs) : gs[i] = g /\ \A j \in 1..(i - 1) : gs[j] # g
    ELSE 0

\* the loop over table_columns: the three mappings, or the ValueError of
\* index().  Distinct keys fill distinct entries, so the order in which the
\* dictionary is walked does not show in the result.
RowsSetup(tc, gs) ==
    LET keys == DOMAIN tc
        ikeys == {k \in keys : IsInfoKey(k)}
        gkeys == {k \in keys : IsGenotypeKey(k)}
        info == [n \in {InfoLocalName(k) : k \in ikeys} |->
                    CHOOSE k \in ikeys : InfoLocalName(k) = n]
        geno == [j \in 1..Len(gs) |->
                    LET mine == {k \in gkeys : GenotypeIndex(gs, GenotypeOf(k)) = j}
                    IN [n \in {GenotypeLocalName(k) : k \in mine} |->
                           CHOOSE k \in mine : GenotypeLocalName(k) = n]]
    IN IF \E k \in gkeys : GenotypeIndex(gs, GenotypeOf(k)) = 0
       THEN [err |-> Raise("ValueError",
                           GenotypeOf(CHOOSE k \in gkeys :
                                          GenotypeIndex(gs, GenotypeOf(k)) = 0)),
             fixed |-> <<>>, info |-> EmptyDict, geno |-> <<>>]
       ELSE [err |-> NoError, fixed |-> FixedColumns(tc), info |-> info, geno |-> geno]

(***************************************************************************)
(* VCFReader.rows: one pass of the loop over the data lines.               *)
(***************************************************************************)
\* the fixed columns of the split line l
RECURSIVE FixedLoop(_, _, _)
FixedLoop(l, fixed, row) ==
    IF Len(fixed) = 0 THEN [err |-> NoError, row |-> row]
    ELSE LET vcf_index == fixed[1][1]
             wt_index == fixed[1][2]
         IN IF vcf_index + 1 > Len(l) THEN [err |-> Raise("IndexError", <<>>), row |-> row]
            ELSE FixedLoop(l, Tail(fixed),
                           IF l[vcf_index + 1] # MISSING_VALUE
                           THEN Put(row, wt_index, l[vcf_index + 1])
                           ELSE row)

\* the value recorded for one token of the annotation field
InfoValue(tokens) == IF Len(tokens) = 2 THEN tokens[2] ELSE <<"1">>

\* the loop over l[7].split(";")
RECURSIVE InfoLoop(_, _, _)
InfoLoop(mappings, info, row) ==
    IF Len(mappings) = 0 THEN row
    ELSE LET tokens == Split(mappings[1], "=")
             name == tokens[1]
         IN InfoLoop(Tail(mappings), info,
                     IF name \in DOMAIN info
                     THEN Put(row, info[name], InfoValue(tokens))
                     ELSE row)

\* the loop over range(len(fmt)) for one sample whose token count matches
RECURSIVE SampleLoop(_, _, _, _, _)
SampleLoop(k, fmt, tokens, gcols, row) ==
    IF k > Len(fmt) THEN row
    ELSE SampleLoop(k + 1, fmt, tokens, gcols,
                    IF fmt[k] \in DOMAIN gcols
                       /\ tokens[k] # MISSING_VALUE /\ tokens[k] # <<".", ",", ".">>
                    THEN Put(row, gcols[fmt[k]], tokens[k])
                    ELSE row)

\* NextSample with the increment inside the test of the token count
NextSampleWhenMatched(j, matched) == IF matched THEN j + 1 ELSE j

\* the sample counter after one sample field: j += 1
NextSample(j, matched) == j + 1

\* the loop over l[9:]; j is 1-based here
RECURSIVE GenotypeLoop(_, _, _, _, _)
GenotypeLoop(values, j, fmt, geno, row) ==
    IF Len(values) = 0 THEN [err |-> NoError, row |-> row]
    ELSE LET tokens == Split(values[1], ":")
             matched == Len(tokens) = Len(fmt)
         IN IF matched /\ j > Len(geno)
            THEN [err |-> RaiseAt("IndexError", j), row |-> row]
            ELSE GenotypeLoop(Tail(values), NextSample(j, matched), fmt, geno,
                              IF matched THEN SampleLoop(1, fmt, tokens, geno[j], row)
                              ELSE row)

\* the dictionary row of one data line s, before the converters are applied
RawRow(s, fixed, info, geno) ==
    LET l == SplitWS(s)
        f == FixedLoop(l, fixed, EmptyDict)
    IN IF f.err.kind # "none" THEN f
       ELSE IF Len(l) < 8 THEN [err |-> Raise("IndexError", <<>>), row |-> f.row]
       ELSE LET r == InfoLoop(Split(l[8], ";"), info, f.row)
            IN IF Len(l) > 8
               THEN GenotypeLoop(Slice(l, 9, Len(l)), 1, Split(l[9], ":"), geno, r)
               ELSE [err |-> NoError, row |-> r]

\* decoded values: bytes, int, float, or the list that conv builds
BytesVal(b) == [t |-> "bytes", b |-> b]
IntVal(i) == [t |-> "int", i |-> i]
FloatVal(f) == [t |-> "float", f |-> f]
ListVal(l) == [t |-> "list", l |-> l]

\* g(tok) for g = int or float
ApplyScalar(g, tok) ==
    IF g = "int"
    THEN [ok |-> ParseInt(tok).ok, v |-> IntVal(ParseInt(tok).v)]
    ELSE [ok |-> ParseFloat(tok).ok, v |-> FloatVal(ParseFloat(tok).v)]

\* d[k] = v when f is None, f(v) otherwise
ApplyConverter(f, v) ==
    IF f.kind = "none" THEN [ok |-> TRUE, v |-> BytesVal(v)]
    ELSE IF f.kind = "scalar" THEN ApplyScalar(f.g, v)
    ELSE LET toks == Split(v, ",")
         IN [ok |-> \A i \in 1..Len(toks) : ApplyScalar(f.g, toks[i]).ok,
             v |-> ListVal([i \in 1..Len(toks) |-> ApplyScalar(f.g, toks[i]).v])]

\* the columns of row whose converter raises ValueError
Undecodable(row, tc) == {k \in DOMAIN row : ~ApplyConverter(tc[k], row[k]).ok}

\* the record d built from row
DecodeRow(row, tc) == [k \in DOMAIN row |-> ApplyConverter(tc[k], row[k]).v]

(***************************************************************************)
(* The inputs.  An input file is the "##" lines, the "#CHROM" line and the *)
(* data lines; the definitions below write such files out byte by byte.    *)
(***************************************************************************)
VersionLine(v) == <<"#","#","f","i","l","e","f","o","r","m","a","t","=","V","C","F","v">> \o v \o <<"\n">>
OldFormatLine == <<"#","#","f","o","r","m","a","t","=","V","C","F","\n">>
DeclLine(kind, id, number, type) ==
    <<"#","#">> \o kind \o <<"=","<","I","D","=">> \o id \o <<",","N","u","m","b","e","r","=">> \o number
    \o <<",","T","y","p","e","=">> \o type \o <<",","D","e","s","c","r","i","p","t","i","o","n","=","\"","d",",","e","=","f","\"",">","\n">>
FilterLine == <<"#","#","F","I","L","T","E","R","=","<","I","D","=","q","1","0",",","D","e","s","c","r","i","p","t","i","o","n","=","\"","Q","u","a","l","i","t","y"," ","b","e","l","o","w"," ","1","0","\"",">","\n">>
ColumnsLine(samples) ==
    Join(<<<<"#","C","H","R","O","M">>, <<"P","O","S">>, <<"I","D">>, <<"R","E","F">>, <<"A","L","T">>, <<"Q","U","A","L">>, <<"F","I","L","T","E","R">>, <<"I","N","F","O">>>>
         \o (IF Len(samples) = 0 THEN <<>> ELSE <<<<"F","O","R","M","A","T">>>> \o samples),
         "\t") \o <<"\n">>
DataLine(fields) == Join(fields, "\t") \o <<"\n">>

SeqsUpTo(S, n) == UNION {[1..k -> S] : k \in 0..n}

NA1 == <<"N","A","1">>
NA2 == <<"N","A","2">>
NA3 == <<"N","A","3">>
DP == <<"D","P">>
AF == <<"A","F">>
DB == <<"D","B">>
GT == <<"G","T">>
HQ == <<"H","Q">>
XKey == <<"X">>
DoubleType == <<"D","o","u","b","l","e">>

\* three annotation declarations, a FILTER line, two per-sample declarations
MetaTwoSamples(v) ==
    << VersionLine(v),
       DeclLine(INFO, DP, <<"1">>, INTEGER),
       DeclLine(INFO, AF, <<"A">>, FLOAT),
       FilterLine,
       DeclLine(INFO, DB, <<"0">>, FLAG),
       DeclLine(<<"F","O","R","M","A","T">>, GT, <<"1">>, STRING_TYPE),
       DeclLine(<<"F","O","R","M","A","T">>, HQ, <<"2">>, INTEGER) >>

\* the same header with a declaration of an unknown type in second place
MetaUnknownType ==
    << VersionLine(<<"4",".","1">>),
       DeclLine(INFO, DP, <<"1">>, INTEGER),
       DeclLine(INFO, AF, <<"A">>, DoubleType),
       DeclLine(<<"F","O","R","M","A","T">>, GT, <<"1">>, STRING_TYPE) >>

MetaThreeSamples ==
    << VersionLine(<<"4",".","0">>),
       DeclLine(<<"F","O","R","M","A","T">>, GT, <<"1">>, STRING_TYPE),
       DeclLine(INFO, DP, <<"1">>, INTEGER),
       DeclLine(<<"F","O","R","M","A","T">>, HQ, <<"2">>, INTEGER),
       DeclLine(INFO, AF, <<"A">>, FLOAT) >>

\* one annotation declaration X of every type and multiplicity below
DeclTypes == {INTEGER, FLOAT, FLAG, CHARACTER, STRING_TYPE, DoubleType}
DeclNumbers == {<<"1">>, <<"4">>, <<"0">>, <<"-","1">>, <<"A">>}
MetaOneDecl(number, type) ==
    << VersionLine(<<"4",".","2">>), DeclLine(INFO, XKey, number, type) >>

\* every kind of annotation token, both samples well formed
LineBoth ==
    DataLine(<<<<"1">>,
        <<"5">>,
        <<"r","1">>,
        <<"A">>,
        <<"C">>,
        <<"9",".","5">>,
        <<"P","A","S","S">>,
        <<"D","P","=","3",";","Z","Z","=","9",";","A","F","=","0",".","5",",","0",".","2","5",";","D","B">>,
        <<"G","T",":","H","Q">>,
        <<"0","|","1",":","1",",","2">>,
        <<"1","|","1",":","3",",","4">>>>)
\* the first sample has two tokens where the layout has three
LineShortSample ==
    DataLine(<<<<"1">>,
        <<"6">>,
        <<".">>,
        <<"G">>,
        <<".">>,
        <<".">>,
        <<".">>,
        <<"D","P","=","7">>,
        <<"G","T",":","Z","Z",":","H","Q">>,
        <<"0","|","0",":","7">>,
        <<"1","|","0",":","z",":","5",",","6">>>>)
\* an annotation value that float() rejects
LineMissingAF ==
    DataLine(<<<<"2">>,
        <<"7">>,
        <<"r","2">>,
        <<"T">>,
        <<"A">>,
        <<"3">>,
        <<"q","1","0">>,
        <<"A","F","=",".",";","D","B">>,
        <<"G","T">>,
        <<"1","/","1">>,
        <<"0","/","1">>>>)
\* an annotation value with "=" in it; missing values in the samples
LineEquals ==
    DataLine(<<<<"X">>,
        <<"8">>,
        <<".">>,
        <<"C">>,
        <<"G">>,
        <<"1">>,
        <<"P","A","S","S">>,
        <<"D","P","=","1","=","2">>,
        <<"G","T",":","H","Q">>,
        <<".",":",".",",",".">>,
        <<"0","/","0",":",".">>>>)
\* one sample field more than the header has samples
LineExtraSample ==
    DataLine(<<<<"1">>,
        <<"9">>,
        <<".">>,
        <<"A">>,
        <<"T">>,
        <<".">>,
        <<".">>,
        <<".">>,
        <<"G","T">>,
        <<"0">>,
        <<"1">>,
        <<"1">>>>)
\* three samples, the second one short
LineThree ==
    DataLine(<<<<"1">>,
        <<"5">>,
        <<".">>,
        <<"A">>,
        <<"C">>,
        <<".">>,
        <<".">>,
        <<"D","P","=","1">>,
        <<"G","T",":","H","Q">>,
        <<"0",":","1",",","2">>,
        <<"1">>,
        <<"0",":","5",",","6">>>>)
\* no field layout and no samples
LineNoSamples ==
    DataLine(<<<<"2">>,
        <<"6">>,
        <<"x">>,
        <<"G">>,
        <<"T">>,
        <<"1",".","5">>,
        <<"P","A","S","S">>,
        <<"D","P","=","3">>>>)
\* every optional field missing
LineAllMissing ==
    DataLine(<<<<"1">>,
        <<"5">>,
        <<".">>,
        <<"A">>,
        <<".">>,
        <<".">>,
        <<".">>,
        <<".">>>>)

\* a REF of 255 bytes and an ALT of 253 bytes
LineLong ==
    DataLine(<<<<"1">>, <<"4">>, <<".">>, [i \in 1..255 |-> "A"], [i \in 1..253 |-> "C"],
               <<".">>, <<".">>, <<".">>>>)

\* the data lines for the header with the one declaration X
XLine(info) ==
    DataLine(<<<<"1">>, <<"5">>, <<".">>, <<"A">>, <<"C">>, <<".">>, <<".">>, info>>)
XLines ==
    { XLine(<<"X","=","7">>), XLine(<<"X","=","1",",","2",",","3",",","4">>),
      XLine(<<"X","=","0",".","5">>), XLine(<<"X","=","a",",","b">>), XLine(<<"X","=","a","=","b">>),
      XLine(<<"X">>) }

TwoSampleLines == {LineBoth, LineShortSample, LineMissingAF, LineEquals, LineExtraSample}

\* the input files of the reader
ReaderInputs ==
    { [meta |-> MetaTwoSamples(<<"4",".","1">>), colline |-> ColumnsLine(<<NA1, NA2>>),
       lines |-> TwoSampleLines],
      [meta |-> MetaThreeSamples, colline |-> ColumnsLine(<<NA1, NA2, NA3>>),
       lines |-> {LineThree}],
      [meta |-> <<VersionLine(<<"4",".","1">>)>>, colline |-> ColumnsLine(<<>>),
       lines |-> {LineNoSamples, LineAllMissing}],
      [meta |-> MetaTwoSamples(<<"3",".","3">>), colline |-> ColumnsLine(<<NA1, NA2>>),
       lines |-> {LineBoth}],
      [meta |-> <<OldFormatLine>>, colline |-> ColumnsLine(<<>>),
       lines |-> {LineAllMissing}] }
    \cup { [meta |-> MetaOneDecl(n, t), colline |-> ColumnsLine(<<>>), lines |-> XLines] :
           n \in DeclNumbers, t \in DeclTypes }

\* the input files of a program run
RunInputs ==
    { [meta |-> MetaTwoSamples(<<"4",".","1">>), colline |-> ColumnsLine(<<NA1, NA2>>),
       lines |-> {LineBoth, LineShortSample, LineMissingAF, LineLong}],
      [meta |-> MetaTwoSamples(<<"3",".","3">>), colline |-> ColumnsLine(<<NA1, NA2>>),
       lines |-> {LineBoth, LineLong}],
      [meta |-> MetaUnknownType, colline |-> ColumnsLine(<<NA1, NA2>>),
       lines |-> {LineBoth, LineLong}] }

\* the command lines: --generate-schema and --schema exclude each other
ArgsSet ==
    { a \in [force : BOOLEAN, generate_schema : BOOLEAN, schema : BOOLEAN,
             truncate : BOOLEAN] : ~(a.generate_schema /\ a.schema) }
NoArgs == [force |-> FALSE, generate_schema |-> FALSE, schema |-> FALSE,
           truncate |-> FALSE]

\* the destination path: absent, or a file with some content
Absent == [exists |-> FALSE, content |-> "none"]
OldFile == [exists |-> TRUE, content |-> "old"]
AvroFile == [exists |-> TRUE, content |-> "avro"]

\* the column sets a caller of rows() asks for: the induced map, parts of
\* it, and the induced map with one column more that the schema lacks
Restrict(f, S) == [k \in (DOMAIN f) \cap S |-> f[k]]
NoConverter == [kind |-> "none", g |-> "none"]
UnwantedColumns == {CHROM_NAME, ID_NAME, FILTER_NAME, <<"I","N","F","O","_","A","F">>, <<"N","A","1","_","G","T">>}
ExtraColumns == {<<"I","N","F","O","_","Z","Z">>, <<"N","A","1","_","Z","Z">>, <<"Z","Z","_","G","T">>}
ColumnSelections(cols) ==
    { cols, Restrict(cols, (DOMAIN cols) \ UnwantedColumns) }
    \cup { Put(cols, x, NoConverter) : x \in ExtraColumns }

(***************************************************************************)
(* The state after construction: VCFReader.__init__ has read the header.   *)
(***************************************************************************)
InitWith(h, ls, a, d, start) ==
    /\ header = h.meta
    /\ ParseVersion(h.meta[1]).ok
    /\ version = ParseVersion(h.meta[1]).v
    /\ genotypes = ParseHeaderLine(h.colline)
    /\ truncate = FALSE
    /\ schema = <<>>
    /\ columns = EmptyDict
    /\ definitions = <<>>
    /\ table_columns = EmptyDict
    /\ fixed_columns = <<>>
    /\ info_columns = EmptyDict
    /\ genotype_columns = <<>>
    /\ all_lines = ls
    /\ input = ls
    /\ records = <<>>
    /\ args = a
    /\ dest = d
    /\ dest0 = d
    /\ writer = "none"
    /\ pc = start
    /\ err = NoError

\* a program run: ProgramRunner.__init__ has built the reader
Init ==
    \E h \in RunInputs : \E ls \in SeqsUpTo(h.lines, MaxRunRows) :
        \E a \in ArgsSet : \E d \in {Absent, OldFile} :
            InitWith(h, ls, a, d, "run")

\* a caller that uses the reader directly
InitReader ==
    \E h \in ReaderInputs :
        \E ls \in SeqsUpTo(h.lines, IF h.lines = XLines THEN MaxDeclRows ELSE MaxRows) :
            InitWith(h, ls, NoArgs, Absent, "new")

(***************************************************************************)
(* The operations of the reader.                                           *)
(***************************************************************************)
readerVars == <<header, version, genotypes>>
setupVars == <<table_columns, fixed_columns, info_columns, genotype_columns>>
fileVars == <<args, dest, dest0, writer>>

\* generate_schema() and what it leaves in the reader
DoGenerateSchema(next) ==
    LET r == GenerateSchema(version, header, genotypes)
    IN /\ schema' = r.schema
       /\ columns' = r.columns
       /\ definitions' = r.definitions
       /\ err' = r.err
       /\ pc' = IF r.err.kind = "none" THEN next ELSE "error"

\* rows(tc) up to the first line: the mappings are built
DoRowsSetup(tc) ==
    LET r == RowsSetup(tc, genotypes)
    IN /\ table_columns' = tc
       /\ fixed_columns' = r.fixed
       /\ info_columns' = r.info
       /\ genotype_columns' = r.geno
       /\ err' = r.err
       /\ pc' = IF r.err.kind = "none" THEN "rows" ELSE "error"

\* a caller calls generate_schema()
CallGenerateSchema ==
    /\ pc = "new"
    /\ DoGenerateSchema("schema")
    /\ UNCHANGED <<readerVars, truncate, setupVars, all_lines, input, records, fileVars>>

\* a caller calls rows() with a column set and pulls the first record: the
\* generator runs up to its loop
CallRows ==
    /\ pc = "schema"
    /\ \E tc \in ColumnSelections(columns) : DoRowsSetup(tc)
    /\ UNCHANGED <<readerVars, truncate, schema, columns, definitions, all_lines, input,
                   records, fileVars>>

\* one pass of the loop of rows(): a line is taken from the file and its
\* record is yielded (and appended by the writer in a program run), or an
\* exception leaves the generator.  When several values of the row cannot be
\* converted, which one raises depends on the order of the dictionary.
RowsNext ==
    /\ pc = "rows"
    /\ input # <<>>
    /\ input' = Tail(input)
    /\ LET r == RawRow(Head(input), fixed_columns, info_columns, genotype_columns)
           bad == IF r.err.kind = "none" THEN Undecodable(r.row, table_columns) ELSE {}
       IN \E k \in (IF bad = {} THEN {<<>>} ELSE bad) :
              /\ err' = IF r.err.kind # "none" THEN r.err
                        ELSE IF bad # {} THEN Raise("ValueError", k)
                        ELSE err
              /\ pc' = IF r.err.kind # "none" \/ bad # {} THEN "error" ELSE pc
              /\ records' = IF r.err.kind # "none" \/ bad # {} THEN records
                            ELSE Append(records, DecodeRow(r.row, table_columns))
    /\ UNCHANGED <<readerVars, truncate, schema, columns, definitions, setupVars, all_lines, fileVars>>

\* the file is exhausted: the loop of rows() ends
RowsFinish ==
    /\ pc = "rows"
    /\ input = <<>>
    /\ pc' = "rows_done"
    /\ UNCHANGED <<readerVars, truncate, schema, columns, definitions, setupVars, all_lines, input,
                   records, fileVars, err>>

(***************************************************************************)
(* ProgramRunner.run, statement by statement.                              *)
(***************************************************************************)
\* if self.__schema is None: self.generate_schema()
RunSchema ==
    /\ pc = "run"
    /\ IF args.schema
       THEN pc' = "dest_check" /\ UNCHANGED <<schema, columns, definitions, err>>
       ELSE DoGenerateSchema("dest_check")
    /\ UNCHANGED <<readerVars, truncate, setupVars, all_lines, input, records, fileVars>>

\* RunCheckDest with the destination unlinked whether or not --force is given
RunCheckDestAlwaysUnlink ==
    /\ pc = "dest_check"
    /\ dest' = IF dest.exists THEN Absent ELSE dest
    /\ pc' = "output"
    /\ UNCHANGED <<readerVars, truncate, schema, columns, definitions, setupVars, all_lines,
                   input, records, args, dest0, writer, err>>

\* if os.path.exists(destination): unlink it when forced, self.error otherwise
RunCheckDest ==
    /\ pc = "dest_check"
    /\ dest' = IF dest.exists /\ args.force THEN Absent ELSE dest
    /\ pc' = IF dest.exists /\ ~args.force THEN "error" ELSE "output"
    /\ err' = IF dest.exists /\ ~args.force
              THEN Raise("SystemExit", <<"e","x","i","s","t","s",";"," ","u","s","e"," ","-","f"," ","t","o"," ","o","v","e","r","w","r","i","t","e">>)
              ELSE err
    /\ UNCHANGED <<readerVars, truncate, schema, columns, definitions, setupVars, all_lines, input,
                   records, args, dest0, writer>>

\* shutil.copyfile(self.__schema, destination): the first argument is the
\* text of the schema, not the path of a file, so the copy cannot open it
RunCopySchema ==
    /\ pc = "output"
    /\ args.generate_schema
    /\ pc' = "error"
    /\ err' = Raise("IOError", <<>>)
    /\ UNCHANGED <<readerVars, truncate, schema, columns, definitions, setupVars, all_lines, input,
                   records, fileVars>>

\* the schema document that generate_schema wrote is accepted by the
\* serialization library when its field names differ
SchemaAccepted(sch) ==
    \A i, j \in 1..Len(sch) : sch[i].name = sch[j].name => i = j

\* create_table: avro.schema.parse, open(destination, "w"), DataFileWriter.
\* With --schema the text handed to the library is the path the user gave;
\* what the library does with it is for the library to say.
RunCreateTable ==
    /\ pc = "output"
    /\ ~args.generate_schema
    /\ \E parsed \in (IF args.schema THEN BOOLEAN ELSE {SchemaAccepted(schema)}) :
           /\ dest' = IF parsed THEN AvroFile ELSE dest
           /\ writer' = IF parsed THEN "open" ELSE writer
           /\ pc' = IF parsed THEN "write" ELSE "error"
           /\ err' = IF parsed THEN err ELSE Raise("SchemaParseException", <<>>)
    /\ UNCHANGED <<readerVars, truncate, schema, columns, definitions, setupVars, all_lines, input,
                   records, args, dest0>>

\* write_table up to the first record: set_truncate_REF_ALT, then rows() on
\* the column map, which is None when the schema was not generated
RunWriteTable ==
    /\ pc = "write"
    /\ truncate' = args.truncate
    /\ IF args.schema
       THEN /\ pc' = "error"
            /\ err' = Raise("TypeError", <<>>)
            /\ UNCHANGED setupVars
       ELSE DoRowsSetup(columns)
    /\ UNCHANGED <<readerVars, schema, columns, definitions, all_lines, input, records,
                   fileVars>>

\* write_table after the loop: the reader and the writer are closed
RunClose ==
    /\ pc = "rows_done"
    /\ writer' = "closed"
    /\ pc' = "done"
    /\ UNCHANGED <<readerVars, truncate, schema, columns, definitions, setupVars, all_lines, input,
                   records, args, dest, dest0, err>>

Next ==
    \/ RunSchema
    \/ RunCheckDest
    \/ RunCopySchema
    \/ RunCreateTable
    \/ RunWriteTable
    \/ RowsNext
    \/ RowsFinish
    \/ RunClose

Spec == Init /\ [][Next]_vars

NextReader ==
    \/ CallGenerateSchema
    \/ CallRows
    \/ RowsNext
    \/ RowsFinish

SpecReader == InitReader /\ [][NextReader]_vars

(***************************************************************************)
(* parse_version on its own: the constructor's read_header hands it the    *)
(* first line of the file, whatever that line is.                          *)
(***************************************************************************)
\* the bytes the version strings are drawn from: the separator of the split,
\* two digits, the point, and a byte that float() does not accept
VersionBytes == {"v", "4", "1", ".", "x"}
VersionStrings == SeqsUpTo(VersionBytes, MaxVersionLen)

\* a reader inside its constructor, read_header about to call parse_version:
\* the first line is read and self._version is not yet assigned
InitVersion ==
    /\ \E s \in VersionStrings : header = <<s>>
    /\ version = [m |-> 0, e |-> -1]
    /\ genotypes = <<>>
    /\ truncate = FALSE
    /\ schema = <<>>
    /\ columns = EmptyDict
    /\ definitions = <<>>
    /\ table_columns = EmptyDict
    /\ fixed_columns = <<>>
    /\ info_columns = EmptyDict
    /\ genotype_columns = <<>>
    /\ all_lines = <<>>
    /\ input = <<>>
    /\ records = <<>>
    /\ args = NoArgs
    /\ dest = Absent
    /\ dest0 = Absent
    /\ writer = "none"
    /\ pc = "read_header"
    /\ err = NoError

\* self.parse_version(self.__header[0]): -1.0 is stored first, then the
\* float of the second token when the split gives two; float's ValueError
\* leaves the constructor
CallParseVersion ==
    /\ pc = "read_header"
    /\ LET r == ParseVersion(header[1])
       IN /\ version' = IF r.ok THEN r.v ELSE InvalidVersion
          /\ pc' = IF r.ok THEN "parsed" ELSE "error"
          /\ err' = IF r.ok THEN err ELSE Raise("ValueError", Split(header[1], "v")[2])
    /\ UNCHANGED <<header, genotypes, truncate, schema, columns, definitions, setupVars,
                   all_lines, input, records, fileVars>>

NextVersion == CallParseVersion

SpecVersion == InitVersion /\ [][NextVersion]_vars

(***************************************************************************)
(* The reader on headers whose sample names and declaration IDs hold the   *)
(* separator byte, or whose sample is called INFO.                         *)
(***************************************************************************)
N_A == <<"N","_","A">>
D_P == <<"D","_","P">>
G_T == <<"G","_","T">>
NameSamples == {<<NA1>>, <<N_A>>, <<INFO>>, <<NA1, N_A>>}
NameInfoIds == {DP, D_P}
NameFormatIds == {GT, G_T}

\* one annotation declaration and one per-sample declaration
MetaNames(iid, fid) ==
    << VersionLine(<<"4",".","1">>),
       DeclLine(INFO, iid, <<"1">>, INTEGER),
       DeclLine(<<"F","O","R","M","A","T">>, fid, <<"1">>, STRING_TYPE) >>

\* a data line with the annotation, the field layout and one value a sample
NameLine(iid, fid, samples) ==
    DataLine(<<<<"1">>, <<"5">>, <<".">>, <<"A">>, <<"C">>, <<".">>, <<".">>,
               iid \o <<"=","3">>, fid>>
             \o [k \in 1..Len(samples) |-> <<"0","/","1">>])

NameInputs ==
    { [meta |-> MetaNames(iid, fid), colline |-> ColumnsLine(ss),
       lines |-> {NameLine(iid, fid, ss)}] :
      iid \in NameInfoIds, fid \in NameFormatIds, ss \in NameSamples }

InitNames ==
    \E h \in NameInputs :
        \E ls \in SeqsUpTo(h.lines, MaxRows) : InitWith(h, ls, NoArgs, Absent, "new")

SpecNames == InitNames /\ [][NextReader]_vars

(***************************************************************************)
(* What the properties below read off the input text.                      *)
(***************************************************************************)
\* the white space separated fields of the k-th data line
Fields(k) == SplitWS(all_lines[k])

\* the text of attribute key in the bracketed list of a declaration line
DeclToken(line, key) ==
    LET body == SubSeq(line, Find(line, "<") + 2, Find(line, ">"))
        attrs == Split(body, ",")
        i == CHOOSE i \in 1..Len(attrs) : StartsWith(attrs[i], key \o <<"=">>)
    IN SubSeq(attrs[i], Len(key) + 2, Len(attrs[i]))

\* generate_schema has returned the schema
SchemaInduced == pc \in {"schema", "rows", "rows_done"}

\* rows() has yielded the records of all the lines consumed so far
RowsRunning == pc \in {"rows", "rows_done"}

(***************************************************************************)
(* C1                                                                      *)
(***************************************************************************)
\* the value a fixed column holds for the text raw of position j (1-based):
\* POS is an integer, QUAL a floating-point number, the others byte strings
FixedColumnValue(j, raw) ==
    IF j = 2 THEN IntVal(ParseInt(raw).v)
    ELSE IF j = 6 THEN FloatVal(ParseFloat(raw).v)
    ELSE BytesVal(raw)

\* C1: rows() yields one record per data line, in input order: while it runs
\* the records yielded and the lines left add up to the data section, and
\* when it ends there are as many records as data lines; in the k-th record
\* a requested fixed column holds the decoded value of the field at its
\* position in the k-th line when that field is not ".", and is absent when
\* the field is "." (a fixed column that was not requested is absent too).
RowsYieldFixedColumns ==
    /\ pc = "rows" => Len(records) + Len(input) = Len(all_lines)
    /\ pc = "rows_done" => Len(records) = Len(all_lines)
    /\ \A k \in 1..Len(records) : \A j \in 1..7 :
           LET name == VCF_FIXED_COLUMNS[j]
               raw == Fields(k)[j]
           IN IF name \in DOMAIN table_columns /\ raw # <<".">>
              THEN /\ name \in DOMAIN records[k]
                   /\ records[k][name] = FixedColumnValue(j, raw)
              ELSE name \notin DOMAIN records[k]

\* two lines transcoded to the end, one with a missing ID that was requested
\* and a QUAL that is present
RowsYieldFixedColumnsWitness ==
    /\ pc = "rows_done"
    /\ Len(records) >= 2
    /\ {ID_NAME, QUAL_NAME, POS_NAME} \subseteq DOMAIN table_columns
    /\ \E k \in 1..Len(records) :
           /\ Fields(k)[3] = <<".">>
           /\ ID_NAME \notin DOMAIN records[k]
           /\ QUAL_NAME \in DOMAIN records[k]
           /\ POS_NAME \in DOMAIN records[k]

(***************************************************************************)
(* C2                                                                      *)
(***************************************************************************)
\* C2: the schema that generate_schema returns lists 7 + I + S*F fields: the
\* seven fixed columns, the I annotation columns in the order of their
\* declarations in the header, then for each of the S samples in turn the F
\* per-sample columns in the order of their declarations.
SchemaFieldOrder ==
    SchemaInduced =>
        LET info == SelectSeq(header, LAMBDA s : StartsWith(s, INFO_PREFIX))
            fmt == SelectSeq(header, LAMBDA s : StartsWith(s, FORMAT_PREFIX))
            I == Len(info)
            S == Len(genotypes)
            F == Len(fmt)
        IN /\ Len(schema) = 7 + I + S * F
           /\ \A k \in 1..7 : schema[k].name = VCF_FIXED_COLUMNS[k]
           /\ \A i \in 1..I :
                  schema[7 + i].name = INFO_NAME \o <<"_">> \o DeclToken(info[i], ID)
           /\ \A s \in 1..S : \A f \in 1..F :
                  schema[7 + I + (s - 1) * F + f].name =
                      genotypes[s] \o <<"_">> \o DeclToken(fmt[f], ID)

\* a schema for two annotation declarations and three samples with two
\* per-sample declarations each
SchemaFieldOrderWitness ==
    /\ SchemaInduced
    /\ Len(genotypes) = 3
    /\ Len(schema) = 7 + 2 + 3 * 2

(***************************************************************************)
(* C3                                                                      *)
(***************************************************************************)
\* the arity the declaration (number, type) ends with
DeclaredArity(number, type) ==
    IF type = FLAG THEN 1
    ELSE IF type = STRING_TYPE THEN VARIABLE_SIZE
    ELSE IF ~ParseInt(number).ok \/ ParseInt(number).v < 0 THEN VARIABLE_SIZE
    ELSE ParseInt(number).v

\* the element type of the declared type
DeclaredElement(type) ==
    IF type \in {INTEGER, FLAG} THEN "int"
    ELSE IF type = FLOAT THEN "float"
    ELSE "bytes"

\* C3: the add_column_definition call that add_column makes for a
\* declaration has the arity variable when Number is no integer or a
\* negative one, one for a Flag, variable for a String and the declared
\* Number otherwise, and the element type int for Integer and Flag, float
\* for Float, bytes for Character and String.
DeclaredArityAndElement ==
    SchemaInduced =>
        LET calls == AddColumnCalls(header, genotypes)
        IN /\ Len(definitions) = 7 + Len(calls)
           /\ \A c \in 1..Len(calls) :
                  LET number == DeclToken(calls[c][2], NUMBER)
                      type == DeclToken(calls[c][2], TYPE)
                  IN /\ definitions[7 + c].num_elements = DeclaredArity(number, type)
                     /\ definitions[7 + c].avro_type = DeclaredElement(type)

\* a Character column declared with a negative Number has been added as a
\* variable one
DeclaredArityAndElementWitness ==
    /\ SchemaInduced
    /\ Len(definitions) = 8
    /\ DeclToken(header[2], NUMBER) = <<"-", "1">>
    /\ DeclToken(header[2], TYPE) = CHARACTER
    /\ definitions[8].num_elements = VARIABLE_SIZE

(***************************************************************************)
(* C4                                                                      *)
(***************************************************************************)
\* the scalar of element type t that the text tok stands for
ScalarOf(t, tok) ==
    IF t = "int" THEN IntVal(ParseInt(tok).v) ELSE FloatVal(ParseFloat(tok).v)

\* the value of a column of element type t and arity n for the text raw
DecodedAs(t, n, raw) ==
    IF t = "bytes" THEN BytesVal(raw)
    ELSE IF n = 1 THEN ScalarOf(t, raw)
    ELSE ListVal([i \in 1..Len(Split(raw, ",")) |-> ScalarOf(t, Split(raw, ",")[i])])

\* the (column, text) pairs of the k-th line: the key=value tokens of the
\* annotation field, and the tokens of the samples that have as many tokens
\* as the field layout
AnnotationPairs(k) ==
    LET toks == Split(Fields(k)[8], ";")
    IN { <<INFO_NAME \o <<"_">> \o Split(toks[i], "=")[1], Split(toks[i], "=")[2]>> :
             i \in {i \in 1..Len(toks) : Len(Split(toks[i], "=")) = 2} }

SamplePairs(k) ==
    IF Len(Fields(k)) <= 8 THEN {}
    ELSE LET fmt == Split(Fields(k)[9], ":")
         IN UNION { { <<genotypes[i] \o <<"_">> \o fmt[f], Split(Fields(k)[9 + i], ":")[f]>> :
                          f \in 1..Len(fmt) } :
                    i \in {i \in 1..(Len(Fields(k)) - 9) :
                               /\ i <= Len(genotypes)
                               /\ Len(Split(Fields(k)[9 + i], ":")) = Len(fmt)} }

\* the add_column_definition calls made for the column col
DefinitionsOf(col) == {i \in 1..Len(definitions) : definitions[i].name = col}

\* C4: the value a record holds for a column is fixed by the element type
\* and the arity the column was defined with: the scalar parse of the whole
\* text for an int or float column of arity one, the sequence of the scalar
\* parses of the comma separated tokens for an int or float column of any
\* other arity, the text itself for a bytes column.
DecoderByTypeAndArity ==
    \A k \in 1..Len(records) : \A p \in AnnotationPairs(k) \cup SamplePairs(k) :
        \A i \in DefinitionsOf(p[1]) :
            (p[1] \in DOMAIN records[k] /\ table_columns[p[1]] = columns[p[1]]) =>
                records[k][p[1]] =
                    DecodedAs(definitions[i].avro_type, definitions[i].num_elements, p[2])

\* an Integer column declared with Number=4 holds a list of four integers,
\* and an Integer column of variable arity a list of one
DecoderByTypeAndArityWitness ==
    /\ Len(records) >= 1
    /\ Len(definitions) = 8
    /\ definitions[8].avro_type = "int"
    /\ definitions[8].name \in DOMAIN records[1]
    /\ records[1][definitions[8].name].t = "list"
    /\ \/ definitions[8].num_elements = 4 /\ Len(records[1][definitions[8].name].l) = 4
       \/ definitions[8].num_elements = 0 /\ Len(records[1][definitions[8].name].l) = 1

(***************************************************************************)
(* C5                                                                      *)
(***************************************************************************)
\* the annotation key of a token, and the text after the key's "="
TokenKey(tok) == Split1(tok, "=")[1]
TokenText(tok) == Split1(tok, "=")[2]

\* C5 (as claimed): for every token of the annotation field whose key is a
\* requested INFO column, a bare key records "1" and key=value records the
\* text after the key's "=", whatever that text is; the record holds the
\* decoded form of it.  A requested annotation column whose key does not
\* occur in the line is absent from the record.
AnnotationValuesVerbatim ==
    \A k \in 1..Len(records) :
        LET toks == Split(Fields(k)[8], ";")
        IN /\ \A i \in 1..Len(toks) :
                  LET col == INFO_NAME \o <<"_">> \o TokenKey(toks[i])
                      text == IF Len(Split1(toks[i], "=")) = 1 THEN <<"1">>
                              ELSE TokenText(toks[i])
                  IN col \in DOMAIN table_columns =>
                         /\ col \in DOMAIN records[k]
                         /\ ApplyConverter(table_columns[col], text).ok
                         /\ records[k][col] = ApplyConverter(table_columns[col], text).v
           /\ \A col \in DOMAIN table_columns :
                  (IsInfoKey(col)
                   /\ \A i \in 1..Len(toks) : TokenKey(toks[i]) # InfoLocalName(col))
                  => col \notin DOMAIN records[k]

(***************************************************************************)
(* C6                                                                      *)
(***************************************************************************)
\* the i-th sample field of the k-th line has another number of tokens than
\* the field layout
ShortSample(k, i) ==
    Len(Split(Fields(k)[9 + i], ":")) # Len(Split(Fields(k)[9], ":"))

\* the requested genotype columns of the i-th sample
SampleColumns(i) ==
    {c \in DOMAIN table_columns :
        i <= Len(genotypes) /\ StartsWith(c, genotypes[i] \o <<"_">>)}

\* the data line at which the run raised
FailedLine == Len(all_lines) - Len(input)

\* C6: a sample field whose token count differs from the field layout puts
\* no genotype column of its sample into the record, and raises nothing: an
\* exception that ends rows() comes from a sample field with the right token
\* count or from a column of another part of the line.  A sample of the same
\* line with the right token count is recorded under its own name, and the
\* lines after it are transcoded as usual (every record satisfies this).
ShortSampleSkipped ==
    /\ \A k \in 1..Len(records) :
           Len(Fields(k)) > 8 =>
               \A i \in 1..(Len(Fields(k)) - 9) :
                   IF ShortSample(k, i)
                   THEN SampleColumns(i) \cap DOMAIN records[k] = {}
                   ELSE \A f \in 1..Len(Split(Fields(k)[9], ":")) :
                            LET col == genotypes[i] \o <<"_">> \o Split(Fields(k)[9], ":")[f]
                                tok == Split(Fields(k)[9 + i], ":")[f]
                            IN (col \in DOMAIN table_columns
                                /\ tok \notin {<<".">>, <<".", ",", ".">>}) =>
                                   /\ col \in DOMAIN records[k]
                                   /\ records[k][col] =
                                          ApplyConverter(table_columns[col], tok).v
    /\ (pc = "error" /\ FailedLine >= 1 /\ Len(Fields(FailedLine)) > 8) =>
           /\ err.kind = "IndexError" =>
                  err.at >= 1 /\ ~ShortSample(FailedLine, err.at)
           /\ err.kind = "ValueError" =>
                  \A i \in 1..(Len(Fields(FailedLine)) - 9) :
                      ShortSample(FailedLine, i) => err.arg \notin SampleColumns(i)

\* the first sample of a line is short, the second one is recorded under its
\* own name, and the line after it has been transcoded too
ShortSampleSkippedWitness ==
    \E k \in 1..Len(records) :
        /\ k < Len(records)
        /\ Len(Fields(k)) = 11
        /\ ShortSample(k, 1)
        /\ ~ShortSample(k, 2)
        /\ SampleColumns(1) # {}
        /\ SampleColumns(2) \cap DOMAIN records[k] # {}

(***************************************************************************)
(* C7                                                                      *)
(***************************************************************************)
TruncateLength == 253

\* C7 (as claimed): with truncation enabled a REF or ALT of more than 253
\* bytes is emitted as its first 253 bytes and one marker byte, and a shorter
\* one unchanged; with truncation disabled REF and ALT are emitted in full.
RefAltTruncated ==
    \A k \in 1..Len(records) : \A j \in {4, 5} :
        LET name == VCF_FIXED_COLUMNS[j]
            raw == Fields(k)[j]
        IN name \in DOMAIN records[k] =>
               IF truncate /\ Len(raw) > TruncateLength
               THEN /\ Len(records[k][name].b) = TruncateLength + 1
                    /\ SubSeq(records[k][name].b, 1, TruncateLength)
                           = SubSeq(raw, 1, TruncateLength)
               ELSE records[k][name] = BytesVal(raw)

(***************************************************************************)
(* C8                                                                      *)
(***************************************************************************)
\* the field is the union of a type and "null"
Nullable(field) == Len(field.type) = 2 /\ field.type[2] = NullType

\* C8 (as claimed): every field of the schema is nullable, its items are of
\* the element type of the column, and it is an array exactly when the arity
\* of the column is not one, for bytes columns as for the others.
ArrayWhenArityNotOne ==
    SchemaInduced =>
        \A i \in 1..Len(schema) :
            /\ Nullable(schema[i])
            /\ schema[i].type[1].items = definitions[i].avro_type
            /\ schema[i].type[1].array <=> definitions[i].num_elements # 1

\* C8 (amended): every field of the schema is nullable, its items are of the
\* element type of the column, and it is an array exactly when the arity of
\* the column is not one and its element type is int or float; a bytes
\* column is a plain bytes field whatever its arity.
ArrayWhenNumericArityNotOne ==
    SchemaInduced =>
        \A i \in 1..Len(schema) :
            /\ Nullable(schema[i])
            /\ schema[i].type[1].items = definitions[i].avro_type
            /\ schema[i].type[1].array <=>
                   (definitions[i].num_elements # 1 /\ definitions[i].avro_type # "bytes")

\* a schema with a bytes column of variable arity that is no array and an
\* int column of arity two that is one
ArrayWhenNumericArityNotOneWitness ==
    /\ SchemaInduced
    /\ \E i, j \in 1..Len(schema) :
           /\ definitions[i].avro_type = "bytes"
           /\ definitions[i].num_elements = VARIABLE_SIZE
           /\ ~schema[i].type[1].array
           /\ definitions[j].avro_type = "int"
           /\ definitions[j].num_elements = 2
           /\ schema[j].type[1].array

(***************************************************************************)
(* C9                                                                      *)
(***************************************************************************)
KnownTypes == {INTEGER, FLOAT, FLAG, CHARACTER, STRING_TYPE}

\* the declared types of the ##INFO and ##FORMAT lines that are unknown
UnknownTypes ==
    { DeclToken(header[i], TYPE) :
          i \in {i \in 1..Len(header) :
                     /\ StartsWith(header[i], INFO_PREFIX)
                        \/ StartsWith(header[i], FORMAT_PREFIX)
                     /\ DeclToken(header[i], TYPE) \notin KnownTypes} }

\* the version of the header is below 4.0 or a declaration has an unknown type
UnsupportedHeader == FloatLess(version, MinVersion) \/ UnknownTypes # {}

\* C9 (as claimed): whatever the flags, a run on a header with a version
\* below 4.0 or with a declaration of an unknown type ends in a fatal error
\* before a data line is consumed and before the destination is created,
\* removed or modified: the run never completes, the input and the
\* destination stay as they were and no writer is opened, and the ValueError
\* of an unknown type names that type.
UnsupportedHeaderFailsFirst ==
    UnsupportedHeader =>
        /\ pc # "done"
        /\ input = all_lines
        /\ dest = dest0
        /\ writer = "none"
        /\ (pc = "error" /\ err.kind = "ValueError" /\ ~FloatLess(version, MinVersion))
               => err.arg \in UnknownTypes

(***************************************************************************)
(* C10                                                                     *)
(***************************************************************************)

\* rows() has been called: its argument is in table_columns
RowsCalled == DOMAIN table_columns # {}

\* the namespace of a qualified column: the text before its last separator
Namespace(c) ==
    SubSeq(c, 1, (CHOOSE i \in 1..Len(c) :
                      c[i] = "_" /\ \A j \in (i + 1)..Len(c) : c[j] # "_") - 1)

SampleNames == {genotypes[i] : i \in 1..Len(genotypes)}

\* C10 (as claimed): when the column set of rows() has a qualified column
\* that the induced schema lacks, rows() fails in its set-up: no data line
\* has been consumed and no record yielded.
MissingColumnFailsAtSetup ==
    (RowsCalled /\ \E c \in DOMAIN table_columns : HasSeparator(c) /\ c \notin DOMAIN columns)
    => /\ pc = "error"
       /\ input = all_lines
       /\ records = <<>>

\* the qualified columns of the column set that name a sample the header
\* does not have: the first component is not INFO and the text before the
\* last separator is no sample name
UnknownSampleColumns ==
    {c \in DOMAIN table_columns :
        HasSeparator(c) /\ Split(c, "_")[1] # INFO /\ Namespace(c) \notin SampleNames}

\* C10 (amended): when the column set of rows() has a qualified column whose
\* namespace is not INFO and is not a sample name of the header, rows() fails
\* with a ValueError in its set-up, at the first pull: no data line has been
\* consumed and no record yielded.  With no such column the set-up does not
\* fail, also when a column names an annotation key or a per-sample field
\* that the header does not declare: an exception then comes from a data
\* line that was consumed.
UnknownSampleFailsAtSetup ==
    /\ (RowsCalled /\ UnknownSampleColumns # {})
       => /\ pc = "error"
          /\ err.kind = "ValueError"
          /\ input = all_lines
          /\ records = <<>>
    /\ (RowsCalled /\ UnknownSampleColumns = {} /\ pc = "error")
       => Len(input) < Len(all_lines)

\* rows() was called for a column of the sample ZZ on an input with data
\* lines and has failed with all of them still in the file
UnknownSampleFailsAtSetupWitness ==
    /\ pc = "error"
    /\ <<"Z","Z","_","G","T">> \in DOMAIN table_columns
    /\ Len(genotypes) = 2
    /\ all_lines # <<>>
    /\ input = all_lines

DigitRun(s, i) ==
    CHOOSE k \in 0..Len(s) :
        /\ i + k - 1 <= Len(s)
        /\ \A j \in i..(i + k - 1) : s[j] \in Digits
        /\ (i + k <= Len(s) => s[i + k] \notin Digits)

\* the positions of s where a version token vX.Y starts: a "v" and a digit
VersionTokens(s) == {i \in 1..(Len(s) - 1) : s[i] = "v" /\ s[i + 1] \in Digits}

\* the X.Y of the token at position i: digits, optionally "." and digits
VersionTokenText(s, i) ==
    LET a == DigitRun(s, i + 1)
        dot == i + 1 + a
        b == IF dot <= Len(s) /\ s[dot] = "." THEN DigitRun(s, dot + 1) ELSE 0
    IN SubSeq(s, i + 1, IF b > 0 THEN dot + b ELSE dot - 1)

ParseVersionCalled == pc \in {"parsed", "error"} /\ all_lines = <<>> /\ Len(header) = 1

\* C12: after parse_version(s), for every byte string s: if s holds exactly
\* one version token vX.Y the stored version is X.Y, otherwise the stored
\* version is the sentinel -1.0; no error is raised in either case.
VersionOrSentinel ==
    ParseVersionCalled =>
        LET s == header[1]
            ts == VersionTokens(s)
        IN /\ pc = "parsed"
           /\ err = NoError
           /\ version = IF Cardinality(ts) = 1
                        THEN ParseFloat(VersionTokenText(s, CHOOSE i \in ts : TRUE)).v
                        ELSE InvalidVersion

(***************************************************************************)
(* C13                                                                     *)
(***************************************************************************)
\* rows() has raised in its set-up: nothing was taken from the file
SetupFailed == RowsCalled /\ pc = "error" /\ input = all_lines

\* C13: when rows() is called with the induced column map, its set-up does
\* not raise, every annotation declaration ID is an annotation key of the
\* set-up mapped to the column INFO_ID, and every per-sample declaration ID
\* is, for the sample at each position of the header, a per-sample field of
\* that position mapped to the column <sample>_ID; this for all sample
\* names and IDs, with separator bytes in them or a sample called INFO.
QualifiedNamesRoundTrip ==
    (RowsCalled /\ table_columns = columns) =>
        /\ ~SetupFailed
        /\ ~SetupFailed =>
             /\ \A i \in 1..Len(InfoDescriptions(header)) :
                    LET id == DeclToken(InfoDescriptions(header)[i], ID)
                    IN /\ id \in DOMAIN info_columns
                       /\ info_columns[id] = INFO_NAME \o <<COLUMN_SEPARATOR>> \o id
             /\ \A p \in 1..Len(genotypes) :
                    \A f \in 1..Len(GenotypeDescriptions(header)) :
                        LET id == DeclToken(GenotypeDescriptions(header)[f], ID)
                        IN /\ id \in DOMAIN genotype_columns[p]
                           /\ genotype_columns[p][id] =
                                  genotypes[p] \o <<COLUMN_SEPARATOR>> \o id

====
